---- MODULE Spec2Model ----
(***************************************************************************)
(* A model of the Hemingway adposition pipeline:                           *)
(*   scripts/extract_prepositions.py  (corpus -> raw dataset)              *)
(*   scripts/analyze_frequency.py     (raw dataset -> statistics)          *)
(*   scripts/compare_authors.py       (frequency summary -> comparisons)   *)
(*                                                                         *)
(* Numbers.  A Python/numpy float is modelled by an exact rational         *)
(* <<n, d>> in lowest terms with d > 0; <<0, 0>> is NaN, <<1, 0>> and      *)
(* <<-1, 0>> are +/- infinity.  A raised ZeroDivisionError is the poison   *)
(* value <<0, -1>>, which every operation propagates.  round(x, 2) rounds  *)
(* the exact value to the nearest hundredth, an exact tie going to the     *)
(* even neighbour; the binary representation error of IEEE doubles is not  *)
(* modelled, so the properties below are stated so that they do not        *)
(* depend on the direction in which a tie is broken.                       *)
(***************************************************************************)
EXTENDS Integers, Sequences, FiniteSets, Bags, TLC

\* ------------------------------------------------------------------ bounds

\* Largest number of occurrences of one word form in a document.
MaxCount == 1
\* Largest number of .txt files one extraction run meets, over both folders.
MaxFiles == 2
\* Largest number of rows of a raw dataset handed to the analysis stage.
MaxWorks == 2
\* Largest number of author rows of a comparison matrix.
MaxAuthors == 3

\* Document lengths (tokens) the inputs are drawn from.
WordCounts == {0, 3000, 6000}

\* --------------------------------------------------------------- arithmetic

Abs(x) == IF x < 0 THEN -x ELSE x

Sgn(x) == IF x < 0 THEN -1 ELSE IF x > 0 THEN 1 ELSE 0

RECURSIVE GCD(_, _)
GCD(a, b) == IF b = 0 THEN a ELSE GCD(b, a % b)

\* The rational n/d (d > 0) in lowest terms.
Frac(n, d) == LET g == GCD(Abs(n), d) IN <<n \div g, d \div g>>

NaN == <<0, 0>>

Inf == <<1, 0>>

ZeroDivisionError == <<0, -1>>

Zero == <<0, 1>>

IsNaN(x) == x = NaN

IsFinite(x) == x[2] > 0

\* An int as a float.
FromInt(i) == <<i, 1>>

FNeg(x) == IF x = ZeroDivisionError THEN x ELSE <<-x[1], x[2]>>

FAdd(x, y) ==
    IF x = ZeroDivisionError \/ y = ZeroDivisionError THEN ZeroDivisionError
    ELSE IF IsNaN(x) \/ IsNaN(y) THEN NaN
    ELSE IF x[2] = 0 /\ y[2] = 0 THEN (IF x[1] = y[1] THEN x ELSE NaN)
    ELSE IF x[2] = 0 THEN x
    ELSE IF y[2] = 0 THEN y
    ELSE Frac(x[1] * y[2] + y[1] * x[2], x[2] * y[2])

FSub(x, y) == FAdd(x, FNeg(y))

FMul(x, y) ==
    IF x = ZeroDivisionError \/ y = ZeroDivisionError THEN ZeroDivisionError
    ELSE IF x[2] = 0 \/ y[2] = 0
         THEN (IF x[1] * y[1] = 0 THEN NaN ELSE <<Sgn(x[1]) * Sgn(y[1]), 0>>)
    ELSE Frac(x[1] * y[1], x[2] * y[2])

\* Python's int / int: a float, or ZeroDivisionError.
PyDiv(a, b) ==
    IF b = 0 THEN ZeroDivisionError
    ELSE Frac(Sgn(b) * a, Abs(b))

\* numpy's float / float: never raises; x/0 is NaN for x = 0 and +/-inf else.
NpDiv(x, y) ==
    IF x = ZeroDivisionError \/ y = ZeroDivisionError THEN ZeroDivisionError
    ELSE IF IsNaN(x) \/ IsNaN(y) THEN NaN
    ELSE IF x[2] = 0 /\ y[2] = 0 THEN NaN
    ELSE IF x[2] = 0 THEN <<x[1] * (IF y[1] < 0 THEN -1 ELSE 1), 0>>
    ELSE IF y[2] = 0 THEN Zero
    ELSE IF y[1] = 0 THEN (IF x[1] = 0 THEN NaN ELSE <<Sgn(x[1]), 0>>)
    ELSE Frac(Sgn(y[1]) * x[1] * y[2], Abs(y[1]) * x[2])

\* x > y on floats: False when either is NaN.
FGt(x, y) ==
    /\ ~IsNaN(x)
    /\ ~IsNaN(y)
    /\ IF x[2] = 0 /\ y[2] = 0 THEN x[1] > y[1]
       ELSE x[1] * y[2] > y[1] * x[2]

\* x >= y on floats: False when either is NaN.
FGe(x, y) == ~IsNaN(x) /\ ~IsNaN(y) /\ ~FGt(y, x)

\* n/d (d > 0) rounded to the nearest integer, a tie to the even neighbour.
RoundHalfEven(n, d) ==
    LET q == n \div d
        r == n % d
    IN  IF 2 * r < d THEN q
        ELSE IF 2 * r > d THEN q + 1
        ELSE IF q % 2 = 0 THEN q ELSE q + 1

\* round(x, 2): NaN and the infinities are returned unchanged.
Round2(x) ==
    IF x[2] <= 0 THEN x
    ELSE Frac(RoundHalfEven(x[1] * 100, x[2]), 100)

\* Sum of a sequence of floats / ints.
RECURSIVE FSum(_)
FSum(s) == IF s = <<>> THEN Zero ELSE FAdd(Head(s), FSum(Tail(s)))

RECURSIVE ISum(_)
ISum(s) == IF s = <<>> THEN 0 ELSE Head(s) + ISum(Tail(s))

\* The non-NaN values of a series (pandas' skipna).
DropNa(s) == LET Test(x) == ~IsNaN(x) IN SelectSeq(s, Test)

\* Series.mean(): NaN values are skipped, NaN for an empty series.
Mean(s) ==
    LET v == DropNa(s)
    IN  IF v = <<>> THEN NaN ELSE NpDiv(FSum(v), FromInt(Len(v)))

\* ------------------------------------------- extract_prepositions.py

TARGET_ADPOSITIONS == <<"across", "through", "along", "past", "around", "beyond">>

Adpositions == {TARGET_ADPOSITIONS[i] : i \in DOMAIN TARGET_ADPOSITIONS}

per_n_words == 10000

\* Word forms a document of the model is made of.
Words == {"Across", "across", "through", "the"}

\* str.lower() on one word.
Lower(w) == IF w = "Across" THEN "across" ELSE w

\* The bag with the positive entries of f.
AsBag(f) == [w \in {v \in DOMAIN f : f[v] > 0} |-> f[w]]

\* The texts: `total` words, of which cap "Across", a "across", t "through".
Texts ==
    { AsBag([w \in Words |->
                CASE w = "Across" -> cap
                  [] w = "across" -> a
                  [] w = "through" -> t
                  [] OTHER -> total - cap - a - t]) :
        <<total, cap, a, t>> \in
            { q \in WordCounts \X (0 .. 1) \X (0 .. MaxCount) \X (0 .. 1) :
                q[2] + q[3] + q[4] <= q[1] } }

\* File stems, with the titles of author_mapping each contains as a substring.
FileTitles ==
    [ n \in {"The Great Gatsby", "1919 - Manhattan Transfer", "draft"} |->
        CASE n = "The Great Gatsby" -> {"The Great Gatsby"}
          [] n = "1919 - Manhattan Transfer" -> {"Manhattan Transfer", "1919"}
          [] OTHER -> {} ]

\* A .txt file: its stem, whether open() succeeds, and its words.
Files == [name : DOMAIN FileTitles, openable : BOOLEAN, text : Texts]

\* read_text_file: utf-8 may fail with UnicodeDecodeError, latin-1 decodes any
\* bytes, so the ValueError is never raised; open() itself may raise OSError.
read_text_file(file) ==
    IF file.openable THEN [ok |-> TRUE, text |-> file.text]
    ELSE [ok |-> FALSE, error |-> "OSError"]

\* tokenize_text: the tokens of text.lower(), as a bag (a token's copies are
\* those of all the word forms that lower-case to it).
tokenize_text(text) ==
    [w \in {Lower(v) : v \in BagToSet(text)} |->
        BagCardinality([v \in {u \in BagToSet(text) : Lower(u) = w} |-> text[v]])]

\* count_adpositions: Counter(tokens).get(adp, 0) for each target.
count_adpositions(tokens, target_adpositions) ==
    [adp \in {target_adpositions[i] : i \in DOMAIN target_adpositions} |->
        CopiesIn(adp, tokens)]

\* normalize_frequency without its test of total_words.
normalize_frequency_unguarded(counts, total_words, n_words) ==
    [adp \in DOMAIN counts |->
        FMul(PyDiv(counts[adp], total_words), FromInt(n_words))]

\* normalize_frequency.
normalize_frequency(counts, total_words, n_words) ==
    IF total_words = 0 THEN [adp \in DOMAIN counts |-> Zero]
    ELSE [adp \in DOMAIN counts |->
            FMul(PyDiv(counts[adp], total_words), FromInt(n_words))]

\* process_corpus_file: the row of one file, or the exception it raises.
process_corpus_file(file, author) ==
    LET rd == read_text_file(file)
    IN  IF ~rd.ok THEN [ok |-> FALSE, error |-> rd.error]
        ELSE
          LET tokens == tokenize_text(rd.text)
              total_words == BagCardinality(tokens)
              adp_counts == count_adpositions(tokens, TARGET_ADPOSITIONS)
              normalized_freq == normalize_frequency(adp_counts, total_words, per_n_words)
          IN  IF \E adp \in DOMAIN normalized_freq :
                     normalized_freq[adp] = ZeroDivisionError
              THEN [ok |-> FALSE, error |-> "ZeroDivisionError"]
              ELSE [ok |-> TRUE,
                    row |-> [author |-> author,
                             work |-> file.name,
                             total_words |-> total_words,
                             count |-> adp_counts,
                             per_10k |-> [adp \in DOMAIN normalized_freq |->
                                             Round2(normalized_freq[adp])]]]

\* author_mapping, in the dict's insertion order.
author_mapping ==
    << <<"Winesburg, Ohio", "Sherwood Anderson">>,
       <<"The Great Gatsby", "F. Scott Fitzgerald">>,
       <<"Manhattan Transfer", "John Dos Passos">>,
       <<"As I Lay Dying", "William Faulkner">>,
       <<"1919", "John Dos Passos">>,
       <<"Of Mice and Men", "John Steinbeck">> >>

\* get_author_from_filename: the author of the first title found in the stem.
get_author_from_filename(filename) ==
    LET hits == {i \in DOMAIN author_mapping :
                    author_mapping[i][1] \in FileTitles[filename]}
    IN  IF hits = {} THEN "Unknown Author"
        ELSE author_mapping[CHOOSE i \in hits : \A j \in hits : i <= j][2]

corpus_folders == <<"hemingway", "comparables">>

VARIABLES
    folder_idx,      \* extract main: index in corpus_folders of the folder being
                     \* read; Len + 1 after the loop, Len + 2 when main has returned
    results,         \* process_author_corpus: rows of the current folder so far
    all_results,     \* extract main: rows of the folders already read
    n_files,         \* files met in this run
    n_skipped,       \* files whose processing raised (logged and skipped)
    last_file,       \* the file the last loop iteration met, and its outcome
    processed,       \* the loop iterations of this run, in order: the file's
                     \* stem, its author, and whether a row was appended
    raw_csv          \* results/data/adpositions_raw_data.csv: [exists, rows]

extract_vars ==
    <<folder_idx, results, all_results, n_files, n_skipped, last_file, processed, raw_csv>>

NoFile == [exists |-> FALSE, rows |-> <<>>]

NoLast == [seen |-> FALSE]

ExtractInit ==
    /\ folder_idx = 1
    /\ results = <<>>
    /\ all_results = <<>>
    /\ n_files = 0
    /\ n_skipped = 0
    /\ last_file = NoLast
    /\ processed = <<>>
    /\ raw_csv = NoFile

\* One iteration of process_author_corpus's loop over txt_files, the exception
\* of process_corpus_file left uncaught: main ends there, and nothing is saved.
ProcessFileUncaught(files, max_files) ==
    /\ folder_idx <= Len(corpus_folders)
    /\ n_files < max_files
    /\ \E file \in files :
          LET author_name == corpus_folders[folder_idx]
              actual_author == IF author_name = "comparables"
                               THEN get_author_from_filename(file.name)
                               ELSE author_name
              result == process_corpus_file(file, actual_author)
          IN  /\ results' = IF result.ok THEN Append(results, result.row) ELSE <<>>
              /\ all_results' = IF result.ok THEN all_results ELSE <<>>
              /\ folder_idx' = IF result.ok THEN folder_idx ELSE Len(corpus_folders) + 2
              /\ n_skipped' = n_skipped
              /\ last_file' = [seen |-> TRUE, file |-> file,
                               author |-> actual_author, ok |-> result.ok]
              /\ processed' = Append(processed, [work |-> file.name,
                                                 author |-> actual_author,
                                                 ok |-> result.ok])
    /\ n_files' = n_files + 1
    /\ UNCHANGED raw_csv

\* One iteration of process_author_corpus's loop over txt_files, the folder
\* holding files of `files` and the run meeting at most max_files of them.
ProcessFileFrom(files, max_files) ==
    /\ folder_idx <= Len(corpus_folders)
    /\ n_files < max_files
    /\ \E file \in files :
          LET author_name == corpus_folders[folder_idx]
              actual_author == IF author_name = "comparables"
                               THEN get_author_from_filename(file.name)
                               ELSE author_name
              result == process_corpus_file(file, actual_author)
          IN  /\ results' = IF result.ok THEN Append(results, result.row) ELSE results
              /\ n_skipped' = IF result.ok THEN n_skipped ELSE n_skipped + 1
              /\ last_file' = [seen |-> TRUE, file |-> file,
                               author |-> actual_author, ok |-> result.ok]
              /\ processed' = Append(processed, [work |-> file.name,
                                                 author |-> actual_author,
                                                 ok |-> result.ok])
    /\ n_files' = n_files + 1
    /\ UNCHANGED <<folder_idx, all_results, raw_csv>>

ProcessFile == ProcessFileFrom(Files, MaxFiles)

\* process_author_corpus returns (also: the folder is missing or holds no
\* .txt file, and [] is returned); main extends all_results.
EndFolder ==
    /\ folder_idx <= Len(corpus_folders)
    /\ all_results' = all_results \o results
    /\ results' = <<>>
    /\ folder_idx' = folder_idx + 1
    /\ UNCHANGED <<n_files, n_skipped, last_file, processed, raw_csv>>

\* extract main, after the loop: the dataset is written only when non-empty.
SaveResults ==
    /\ folder_idx = Len(corpus_folders) + 1
    /\ raw_csv' = IF all_results # <<>>
                  THEN [exists |-> TRUE, rows |-> all_results]
                  ELSE raw_csv
    /\ folder_idx' = folder_idx + 1
    /\ UNCHANGED <<results, all_results, n_files, n_skipped, last_file, processed>>

\* ---------------------------------------------- analyze_frequency.py

\* Series.min() / Series.max(): NaN values are skipped, NaN for an empty series.
RECURSIVE Least(_)
Least(s) ==
    IF Len(s) = 1 THEN s[1]
    ELSE LET m == Least(Tail(s)) IN IF FGt(m, Head(s)) THEN Head(s) ELSE m

RECURSIVE Greatest(_)
Greatest(s) ==
    IF Len(s) = 1 THEN s[1]
    ELSE LET m == Greatest(Tail(s)) IN IF FGt(Head(s), m) THEN Head(s) ELSE m

FMin(s) == IF DropNa(s) = <<>> THEN NaN ELSE Least(DropNa(s))

FMax(s) == IF DropNa(s) = <<>> THEN NaN ELSE Greatest(DropNa(s))

RECURSIVE LCM100(_)
\* The least multiple of 100 that every denominator of s divides.
LCM100(s) ==
    IF s = <<>> THEN 100
    ELSE LET m == LCM100(Tail(s)) IN (m \div GCD(m, Head(s)[2])) * Head(s)[2]

\* The largest h in lo .. hi with h = 0 or (2h - 1)^2 * k <= t  (bisection).
RECURSIVE NearestRoot(_, _, _, _)
NearestRoot(t, k, lo, hi) ==
    IF lo >= hi THEN lo
    ELSE LET mid == (lo + hi + 1) \div 2
         IN  IF (2 * mid - 1) * (2 * mid - 1) * k <= t
             THEN NearestRoot(t, k, mid, hi)
             ELSE NearestRoot(t, k, lo, mid - 1)

\* round(Series.std(), 2): the sample standard deviation (N - 1 denominator),
\* NaN for fewer than two observations.  With X = D * x integers,
\* std = sqrt(S / (n (n - 1))) / D for S = n * sum X^2 - (sum X)^2, and the
\* result is the hundredth nearest to it.
RoundStd(s) ==
    LET v == DropNa(s)
        n == Len(v)
    IN  IF n < 2 THEN NaN
        ELSE
          LET D == LCM100(v)
              X == [i \in 1 .. n |-> v[i][1] * (D \div v[i][2])]
              S == n * ISum([i \in 1 .. n |-> X[i] * X[i]]) - ISum(X) * ISum(X)
              k == n * (n - 1) * (D \div 100) * (D \div 100)
              range == FSub(FMax(v), FMin(v))
              hi == (100 * range[1]) \div range[2] + 1
          IN  Frac(NearestRoot(4 * S, k, 0, hi), 100)

\* Series.unique(): the values in order of first appearance.
RECURSIVE Unique(_)
Unique(s) ==
    IF s = <<>> THEN <<>>
    ELSE LET u == Unique(SubSeq(s, 1, Len(s) - 1))
         IN  IF \E i \in DOMAIN u : u[i] = s[Len(s)] THEN u ELSE Append(u, s[Len(s)])

Authors(df) == Unique([i \in DOMAIN df |-> df[i].author])

\* df[df['author'] == author]
AuthorDf(df, author) ==
    LET Test(r) == r.author = author IN SelectSeq(df, Test)

\* The adpositions whose {adp}_count / {adp}_per_10k column the table has.
CountCols(df) == IF df = <<>> THEN {} ELSE DOMAIN df[1].count

FreqCols(df) == IF df = <<>> THEN {} ELSE DOMAIN df[1].per_10k

SeqToSet(s) == {s[i] : i \in DOMAIN s}

\* author_stats_row with the pooled rate sum(count) / sum(total_words) * 10000
\* for the average.
author_stats_row_pooled(author_df, author, target_adpositions) ==
    LET present == SeqToSet(target_adpositions) \cap CountCols(author_df)
        words == ISum([i \in DOMAIN author_df |-> author_df[i].total_words])
    IN  [author |-> author,
         num_works |-> Len(author_df),
         total_words |-> words,
         avg_words_per_work |->
             Mean([i \in DOMAIN author_df |-> FromInt(author_df[i].total_words)]),
         total_count |-> [adp \in present |->
             ISum([i \in DOMAIN author_df |-> author_df[i].count[adp]])],
         avg_per_10k |-> [adp \in present |->
             IF words = 0 THEN Zero
             ELSE Round2(Frac(10000 * ISum([i \in DOMAIN author_df |->
                                              author_df[i].count[adp]]), words))],
         std_per_10k |-> [adp \in present |->
             RoundStd([i \in DOMAIN author_df |-> author_df[i].per_10k[adp]])]]

\* The rows calculate_author_statistics builds for one author.
author_stats_row(author_df, author, target_adpositions) ==
    LET present == SeqToSet(target_adpositions) \cap CountCols(author_df)
    IN  [author |-> author,
         num_works |-> Len(author_df),
         total_words |-> ISum([i \in DOMAIN author_df |-> author_df[i].total_words]),
         avg_words_per_work |->
             Mean([i \in DOMAIN author_df |-> FromInt(author_df[i].total_words)]),
         total_count |-> [adp \in present |->
             ISum([i \in DOMAIN author_df |-> author_df[i].count[adp]])],
         avg_per_10k |-> [adp \in present |->
             Round2(Mean([i \in DOMAIN author_df |-> author_df[i].per_10k[adp]]))],
         std_per_10k |-> [adp \in present |->
             RoundStd([i \in DOMAIN author_df |-> author_df[i].per_10k[adp]])]]

\* calculate_author_statistics: a KeyError when a table has an {adp}_count
\* column without its {adp}_per_10k column.
calculate_author_statistics(df, target_adpositions) ==
    IF ~(SeqToSet(target_adpositions) \cap CountCols(df) \subseteq FreqCols(df))
    THEN [ok |-> FALSE, error |-> "KeyError"]
    ELSE [ok |-> TRUE,
          rows |-> LET authors == Authors(df)
                   IN  [i \in DOMAIN authors |->
                          author_stats_row(AuthorDf(df, authors[i]), authors[i],
                                           target_adpositions)]]

\* calculate_total_adpositions without `df = df.copy()`: the two columns are
\* added to the caller's table, which is also the table returned.
calculate_total_adpositions_in_place(df, target_adpositions) ==
    IF ~(SeqToSet(target_adpositions) \subseteq CountCols(df))
    THEN [ok |-> FALSE, error |-> "KeyError", df |-> df]
    ELSE
      LET total_adpositions_count ==
              [i \in DOMAIN df |->
                  ISum([j \in DOMAIN target_adpositions |->
                           df[i].count[target_adpositions[j]]])]
          total_adpositions_per_10k ==
              [i \in DOMAIN df |->
                  FMul(NpDiv(FromInt(total_adpositions_count[i]),
                             FromInt(df[i].total_words)),
                       FromInt(10000))]
      IN  [ok |-> TRUE,
           rows |-> [i \in DOMAIN df |->
                       [row |-> df[i],
                        total_adpositions_count |-> total_adpositions_count[i],
                        total_adpositions_per_10k |-> total_adpositions_per_10k[i]]],
           df |-> [i \in DOMAIN df |->
                     [author |-> df[i].author,
                      work |-> df[i].work,
                      total_words |-> df[i].total_words,
                      count |-> df[i].count,
                      per_10k |-> df[i].per_10k,
                      total_adpositions_count |-> total_adpositions_count[i],
                      total_adpositions_per_10k |-> total_adpositions_per_10k[i]]]]

\* calculate_total_adpositions: pandas' Series division.  `rows` is the table
\* returned, each row the input row with the two new columns; `df` is the
\* caller's table after the call, untouched since the function works on a copy.
calculate_total_adpositions(df, target_adpositions) ==
    IF ~(SeqToSet(target_adpositions) \subseteq CountCols(df))
    THEN [ok |-> FALSE, error |-> "KeyError", df |-> df]
    ELSE [ok |-> TRUE,
          rows |-> [i \in DOMAIN df |->
             LET total_adpositions_count ==
                     ISum([j \in DOMAIN target_adpositions |->
                              df[i].count[target_adpositions[j]]])
             IN  [row |-> df[i],
                  total_adpositions_count |-> total_adpositions_count,
                  total_adpositions_per_10k |->
                      FMul(NpDiv(FromInt(total_adpositions_count),
                                 FromInt(df[i].total_words)),
                           FromInt(10000))]],
          df |-> df]

\* summary_entries with the mean left unrounded.
RECURSIVE summary_entries_unrounded(_, _, _)
summary_entries_unrounded(author_df, author, target_adpositions) ==
    IF target_adpositions = <<>> THEN <<>>
    ELSE
      LET adp == Head(target_adpositions)
          rest == summary_entries_unrounded(author_df, author, Tail(target_adpositions))
          col == [i \in DOMAIN author_df |-> author_df[i].per_10k[adp]]
      IN  IF adp \in FreqCols(author_df)
          THEN << [author |-> author,
                   adposition |-> adp,
                   mean_frequency |-> Mean(col),
                   std_frequency |-> RoundStd(col),
                   min_frequency |-> Round2(FMin(col)),
                   max_frequency |-> Round2(FMax(col))] >> \o rest
          ELSE rest

\* The entries create_frequency_summary appends for one author.
RECURSIVE summary_entries(_, _, _)
summary_entries(author_df, author, target_adpositions) ==
    IF target_adpositions = <<>> THEN <<>>
    ELSE
      LET adp == Head(target_adpositions)
          rest == summary_entries(author_df, author, Tail(target_adpositions))
          col == [i \in DOMAIN author_df |-> author_df[i].per_10k[adp]]
      IN  IF adp \in FreqCols(author_df)
          THEN << [author |-> author,
                   adposition |-> adp,
                   mean_frequency |-> Round2(Mean(col)),
                   std_frequency |-> RoundStd(col),
                   min_frequency |-> Round2(FMin(col)),
                   max_frequency |-> Round2(FMax(col))] >> \o rest
          ELSE rest

RECURSIVE Concat(_)
Concat(ss) == IF ss = <<>> THEN <<>> ELSE Head(ss) \o Concat(Tail(ss))

\* create_frequency_summary.
create_frequency_summary(df, target_adpositions) ==
    LET authors == Authors(df)
    IN  Concat([i \in DOMAIN authors |->
                  summary_entries(AuthorDf(df, authors[i]), authors[i],
                                  target_adpositions)])

\* ------------------------------------------------ compare_authors.py

\* Python's order of the author names and of the adpositions (sorted()).
AuthorOrder ==
    <<"F. Scott Fitzgerald", "John Dos Passos", "John Steinbeck", "Sherwood Anderson",
      "Unknown Author", "William Faulkner", "hemingway">>

AdpositionOrder == <<"across", "along", "around", "beyond", "past", "through">>

\* The members of `set` in the order of `order`.
Sorted(set, order) == LET Test(x) == x \in set IN SelectSeq(order, Test)

\* create_comparison_matrix resolving a duplicate (index, column) by keeping
\* the last row (last-write-wins) instead of raising.
create_comparison_matrix_last_wins(summary) ==
    LET index == Sorted({summary[i].author : i \in DOMAIN summary}, AuthorOrder)
        columns == Sorted({summary[i].adposition : i \in DOMAIN summary},
                          AdpositionOrder)
    IN  [ok |-> TRUE,
         index |-> index,
         columns |-> columns,
         cell |-> [c \in SeqToSet(index) \X SeqToSet(columns) |->
                     LET hit == {i \in DOMAIN summary :
                                    /\ summary[i].author = c[1]
                                    /\ summary[i].adposition = c[2]}
                     IN  IF hit = {} THEN NaN
                         ELSE summary[CHOOSE i \in hit : \A j \in hit : j <= i]
                                 .mean_frequency]]

\* create_comparison_matrix pivoting values='std_frequency'.
create_comparison_matrix_of_std(summary) ==
    IF \E i, j \in DOMAIN summary :
          /\ i # j
          /\ summary[i].author = summary[j].author
          /\ summary[i].adposition = summary[j].adposition
    THEN [ok |-> FALSE, error |-> "ValueError"]
    ELSE
      LET index == Sorted({summary[i].author : i \in DOMAIN summary}, AuthorOrder)
          columns == Sorted({summary[i].adposition : i \in DOMAIN summary},
                            AdpositionOrder)
      IN  [ok |-> TRUE,
           index |-> index,
           columns |-> columns,
           cell |-> [c \in SeqToSet(index) \X SeqToSet(columns) |->
                       LET hit == {i \in DOMAIN summary :
                                      /\ summary[i].author = c[1]
                                      /\ summary[i].adposition = c[2]}
                       IN  IF hit = {} THEN NaN
                           ELSE summary[CHOOSE i \in hit : TRUE].std_frequency]]

\* create_comparison_matrix: DataFrame.pivot sorts both axes, leaves NaN where
\* the summary has no row, and raises ValueError on a duplicate (index, column).
create_comparison_matrix(summary) ==
    IF \E i, j \in DOMAIN summary :
          /\ i # j
          /\ summary[i].author = summary[j].author
          /\ summary[i].adposition = summary[j].adposition
    THEN [ok |-> FALSE, error |-> "ValueError"]
    ELSE
      LET index == Sorted({summary[i].author : i \in DOMAIN summary}, AuthorOrder)
          columns == Sorted({summary[i].adposition : i \in DOMAIN summary},
                            AdpositionOrder)
      IN  [ok |-> TRUE,
           index |-> index,
           columns |-> columns,
           cell |-> [c \in SeqToSet(index) \X SeqToSet(columns) |->
                       LET hit == {i \in DOMAIN summary :
                                      /\ summary[i].author = c[1]
                                      /\ summary[i].adposition = c[2]}
                       IN  IF hit = {} THEN NaN
                           ELSE summary[CHOOSE i \in hit : TRUE].mean_frequency]]

None == [kind |-> "None"]

Frame(rows) == [kind |-> "frame", rows |-> rows]

\* hemingway_entries dividing without the test of hem_freq.
hemingway_entries_untested(comparison_matrix, author) ==
    [k \in DOMAIN comparison_matrix.columns |->
        LET adposition == comparison_matrix.columns[k]
            hem_freq == comparison_matrix.cell[<<"hemingway", adposition>>]
            auth_freq == comparison_matrix.cell[<<author, adposition>>]
        IN  [author |-> author,
             adposition |-> adposition,
             hemingway_freq |-> Round2(hem_freq),
             author_freq |-> Round2(auth_freq),
             difference |-> Round2(FSub(auth_freq, hem_freq)),
             ratio |-> Round2(NpDiv(auth_freq, hem_freq))]]

\* The entries compare_to_hemingway appends for one author.
hemingway_entries(comparison_matrix, author) ==
    [k \in DOMAIN comparison_matrix.columns |->
        LET adposition == comparison_matrix.columns[k]
            hem_freq == comparison_matrix.cell[<<"hemingway", adposition>>]
            auth_freq == comparison_matrix.cell[<<author, adposition>>]
            diff == FSub(auth_freq, hem_freq)
            ratio == IF FGt(hem_freq, Zero) THEN NpDiv(auth_freq, hem_freq) ELSE Inf
        IN  [author |-> author,
             adposition |-> adposition,
             hemingway_freq |-> Round2(hem_freq),
             author_freq |-> Round2(auth_freq),
             difference |-> Round2(diff),
             ratio |-> Round2(ratio)]]

\* compare_to_hemingway without the `continue` that skips the baseline row.
compare_to_hemingway_unskipped(comparison_matrix) ==
    IF "hemingway" \notin SeqToSet(comparison_matrix.index) THEN None
    ELSE Frame(Concat([i \in DOMAIN comparison_matrix.index |->
                         hemingway_entries(comparison_matrix,
                                           comparison_matrix.index[i])]))

\* compare_to_hemingway: None when the matrix has no 'hemingway' row.
compare_to_hemingway(comparison_matrix) ==
    IF "hemingway" \notin SeqToSet(comparison_matrix.index) THEN None
    ELSE
      LET others == LET Test(a) == a # "hemingway"
                    IN  SelectSeq(comparison_matrix.index, Test)
      IN  Frame(Concat([i \in DOMAIN others |->
                          hemingway_entries(comparison_matrix, others[i])]))

\* other_freq_mean taken over every author, the one under test included.
other_freq_mean_global(comparison_matrix, author, adposition) ==
    Mean([i \in DOMAIN comparison_matrix.index |->
            comparison_matrix.cell[<<comparison_matrix.index[i], adposition>>]])

\* The mean of the other authors' cells of one column.
other_freq_mean(comparison_matrix, author, adposition) ==
    LET other_authors == LET Test(a) == a # author
                         IN  SelectSeq(comparison_matrix.index, Test)
    IN  Mean([i \in DOMAIN other_authors |->
                comparison_matrix.cell[<<other_authors[i], adposition>>]])

\* distinctive_entry with `ratio > 2.0` for the level.
distinctive_entry_strict(comparison_matrix, author, adposition, threshold) ==
    LET author_freq == comparison_matrix.cell[<<author, adposition>>]
        others == other_freq_mean(comparison_matrix, author, adposition)
        ratio == NpDiv(author_freq, others)
    IN  IF FGt(others, Zero) /\ FGe(ratio, threshold)
        THEN << [author |-> author,
                 adposition |-> adposition,
                 author_frequency |-> Round2(author_freq),
                 others_mean_frequency |-> Round2(others),
                 ratio |-> Round2(ratio),
                 distinctive_level |->
                     IF FGt(ratio, <<2, 1>>) THEN "high" ELSE "moderate"] >>
        ELSE <<>>

\* The feature identify_distinctive_features appends for one cell, if any.
distinctive_entry(comparison_matrix, author, adposition, threshold) ==
    LET author_freq == comparison_matrix.cell[<<author, adposition>>]
        others == other_freq_mean(comparison_matrix, author, adposition)
        ratio == NpDiv(author_freq, others)
    IN  IF FGt(others, Zero) /\ FGe(ratio, threshold)
        THEN << [author |-> author,
                 adposition |-> adposition,
                 author_frequency |-> Round2(author_freq),
                 others_mean_frequency |-> Round2(others),
                 ratio |-> Round2(ratio),
                 distinctive_level |->
                     IF FGe(ratio, <<2, 1>>) THEN "high" ELSE "moderate"] >>
        ELSE <<>>

\* identify_distinctive_features.
identify_distinctive_features(comparison_matrix, threshold) ==
    Concat([i \in DOMAIN comparison_matrix.index |->
              Concat([k \in DOMAIN comparison_matrix.columns |->
                        distinctive_entry(comparison_matrix,
                                          comparison_matrix.index[i],
                                          comparison_matrix.columns[k],
                                          threshold)])])

\* generate_summary_report reading the comparison without `is not None`.
generate_summary_report_unchecked(comparison_matrix, hemingway_comparison, distinctive_features) ==
    [ok |-> FALSE, error |-> IF hemingway_comparison = None THEN "TypeError"
                             ELSE "KeyError"]

\* generate_summary_report: the sections the report holds.  A comparison frame
\* without rows has no 'author' column, and reading it raises KeyError.
generate_summary_report(comparison_matrix, hemingway_comparison, distinctive_features) ==
    IF hemingway_comparison # None /\ hemingway_comparison.rows = <<>>
    THEN [ok |-> FALSE, error |-> "KeyError"]
    ELSE [ok |-> TRUE,
          totals |-> [a \in SeqToSet(comparison_matrix.index) |->
                        FSum([k \in DOMAIN comparison_matrix.columns |->
                                LET c == comparison_matrix.cell[
                                            <<a, comparison_matrix.columns[k]>>]
                                IN  IF IsNaN(c) THEN Zero ELSE c])],
          traits |-> distinctive_features,
          hemingway_section |-> hemingway_comparison # None]

\* ------------------------------------------------- state of the later stages

VARIABLES
    df,                     \* analyze: the raw dataset as loaded (a sequence of rows)
    df_with_totals,         \* analyze: result of calculate_total_adpositions
    author_stats,           \* analyze: result of calculate_author_statistics
    frequency_summary,      \* analyze / compare: the frequency summary table
    comparison_matrix,      \* compare: result of create_comparison_matrix
    baseline,               \* compare: the author the caller wants as baseline
    hemingway_comparison,   \* compare: result of compare_to_hemingway
    threshold,              \* compare: the threshold the features were computed with
    high_threshold,         \* compare: the "high" level threshold the caller wants
    distinctive_features,   \* compare: result of identify_distinctive_features
    main_status,            \* compare main: "idle", "done" or "crashed"
    data_dir                \* compare main: the files it wrote into results/data

analyze_vars == <<df, df_with_totals, author_stats, frequency_summary>>

compare_vars ==
    <<comparison_matrix, baseline, hemingway_comparison, threshold, high_threshold,
      distinctive_features, main_status, data_dir>>

vars == <<extract_vars, analyze_vars, compare_vars>>

Unset == [kind |-> "unset"]

NoData == [f \in {"comparison_matrix.csv", "hemingway_comparison.csv",
                  "distinctive_features.csv", "comparative_report.txt"} |-> Unset]

AnalyzeIdle ==
    /\ df = <<>>
    /\ df_with_totals = Unset
    /\ author_stats = Unset

CompareIdle ==
    /\ comparison_matrix = Unset
    /\ baseline = "none"
    /\ hemingway_comparison = Unset
    /\ threshold = NaN
    /\ high_threshold = NaN
    /\ distinctive_features = Unset
    /\ main_status = "idle"
    /\ data_dir = NoData

\* The extraction script has run and returned; `rows` is what it wrote.
ExtractIdle(rows) ==
    /\ folder_idx = Len(corpus_folders) + 2
    /\ results = <<>>
    /\ all_results = <<>>
    /\ n_files = 0
    /\ n_skipped = 0
    /\ last_file = NoLast
    /\ processed = <<>>
    /\ raw_csv = [exists |-> TRUE, rows |-> rows]

\* ---- the extraction run

Init ==
    /\ ExtractInit
    /\ AnalyzeIdle
    /\ frequency_summary = Unset
    /\ CompareIdle

Next ==
    \/ ProcessFile /\ UNCHANGED <<analyze_vars, compare_vars>>
    \/ EndFolder /\ UNCHANGED <<analyze_vars, compare_vars>>
    \/ SaveResults /\ UNCHANGED <<analyze_vars, compare_vars>>

Spec == Init /\ [][Next]_vars

\* ---- the extraction run over folders of up to MaxCorpusFiles files

\* Largest number of .txt files this run meets, over both folders.
MaxCorpusFiles == 3

\* The files of the folders: each stem, readable or not, holding no word or
\* 3000 words with one "across".
CorpusFiles ==
    {f \in Files :
        f.text \in {EmptyBag,
                    AsBag([w \in Words |->
                             CASE w = "across" -> 1
                               [] w = "the" -> 2999
                               [] OTHER -> 0])}}

NextCorpus ==
    \/ ProcessFileFrom(CorpusFiles, MaxCorpusFiles) /\ UNCHANGED <<analyze_vars, compare_vars>>
    \/ EndFolder /\ UNCHANGED <<analyze_vars, compare_vars>>
    \/ SaveResults /\ UNCHANGED <<analyze_vars, compare_vars>>

SpecCorpus == Init /\ [][NextCorpus]_vars

\* ---- the analysis functions on a raw dataset

AnalysisAuthors == {"hemingway", "F. Scott Fitzgerald"}

\* The rows process_corpus_file produces for the texts of the model.
RawRows ==
    { process_corpus_file([name |-> "draft", openable |-> TRUE, text |-> t], a).row :
        <<t, a>> \in Texts \X AnalysisAuthors }

\* The raw datasets: 1 .. MaxWorks rows.
RawDatasets == UNION { [1 .. n -> RawRows] : n \in 1 .. MaxWorks }

CalculateTotalAdpositions ==
    /\ df # <<>>
    /\ df_with_totals = Unset
    /\ \E enriched \in {calculate_total_adpositions(df, TARGET_ADPOSITIONS)} :
          /\ df_with_totals' = enriched
          /\ df' = enriched.df
    /\ UNCHANGED <<author_stats, frequency_summary>>

CalculateAuthorStatistics ==
    /\ df # <<>>
    /\ author_stats = Unset
    /\ author_stats' = calculate_author_statistics(df, TARGET_ADPOSITIONS)
    /\ UNCHANGED <<df, df_with_totals, frequency_summary>>

CreateFrequencySummary ==
    /\ df # <<>>
    /\ frequency_summary = Unset
    /\ frequency_summary' = Frame(create_frequency_summary(df, TARGET_ADPOSITIONS))
    /\ UNCHANGED <<df, df_with_totals, author_stats>>

InitAnalyze ==
    /\ df \in RawDatasets
    /\ ExtractIdle(df)
    /\ df_with_totals = Unset
    /\ author_stats = Unset
    /\ frequency_summary = Unset
    /\ CompareIdle

NextAnalyze ==
    \/ CalculateTotalAdpositions /\ UNCHANGED <<extract_vars, compare_vars>>
    \/ CalculateAuthorStatistics /\ UNCHANGED <<extract_vars, compare_vars>>
    \/ CreateFrequencySummary /\ UNCHANGED <<extract_vars, compare_vars>>

SpecAnalyze == InitAnalyze /\ [][NextAnalyze]_vars

\* ---- the analysis functions on a raw dataset that lacks columns

\* pd.read_csv returns the columns the file has: the table df without the
\* {adp}_count columns of `counts` and the {adp}_per_10k columns of `freqs`.
WithoutColumns(d, counts, freqs) ==
    [i \in DOMAIN d |->
        [d[i] EXCEPT !.count = [adp \in DOMAIN d[i].count \ counts |-> d[i].count[adp]],
                     !.per_10k = [adp \in DOMAIN d[i].per_10k \ freqs |->
                                     d[i].per_10k[adp]]]]

\* The columns a raw dataset file may lack: a count column, a rate column, or
\* both columns of one adposition.
MissingColumns ==
    { <<{"across"}, {}>>, <<{}, {"across"}>>, <<{"across"}, {"across"}>> }

InitSchema ==
    /\ df \in {WithoutColumns(d, m[1], m[2]) : <<d, m>> \in RawDatasets \X MissingColumns}
    /\ ExtractIdle(df)
    /\ df_with_totals = Unset
    /\ author_stats = Unset
    /\ frequency_summary = Unset
    /\ CompareIdle

SpecSchema == InitSchema /\ [][NextAnalyze]_vars

\* ---- the comparison functions and compare main on a frequency summary

MatrixAuthors == {"F. Scott Fitzgerald", "Unknown Author", "William Faulkner", "hemingway"}

\* Mean rates (two decimals) the summaries of the model hold.
AcrossValues == {Zero, <<2, 1>>, <<5, 1>>, <<10, 1>>}

ThroughValues == {<<3, 1>>, <<10, 1>>}

\* The summary of authors with one work each, rated `rate`.
SummaryOf(authors, rate) ==
    Concat([i \in DOMAIN authors |->
        [k \in DOMAIN TARGET_ADPOSITIONS |->
            LET x == rate[<<authors[i], TARGET_ADPOSITIONS[k]>>]
            IN  [author |-> authors[i],
                 adposition |-> TARGET_ADPOSITIONS[k],
                 mean_frequency |-> x,
                 std_frequency |-> NaN,
                 min_frequency |-> x,
                 max_frequency |-> x]]])

Summaries ==
    UNION { { SummaryOf(Sorted(A, AuthorOrder),
                        [c \in A \X Adpositions |->
                            CASE c[2] = "across" -> ac[c[1]]
                              [] c[2] = "through" -> th[c[1]]
                              [] OTHER -> Zero]) :
                <<ac, th>> \in [A -> AcrossValues] \X [A -> ThroughValues] } :
            A \in {B \in SUBSET MatrixAuthors : Cardinality(B) \in 1 .. MaxAuthors} }

Thresholds == {<<3, 2>>, <<2, 1>>}

HighThresholds == {<<2, 1>>, <<3, 1>>}

default_threshold == <<3, 2>>

CreateComparisonMatrix ==
    /\ frequency_summary # Unset
    /\ comparison_matrix = Unset
    /\ main_status = "idle"
    /\ comparison_matrix' = create_comparison_matrix(frequency_summary.rows)
    /\ UNCHANGED <<baseline, hemingway_comparison, threshold, high_threshold,
                   distinctive_features, main_status, data_dir>>

\* A caller that wants a comparison against `b`: compare_to_hemingway takes
\* the matrix alone.
CompareToHemingway ==
    /\ comparison_matrix # Unset
    /\ comparison_matrix.ok
    /\ hemingway_comparison = Unset
    /\ \E b \in SeqToSet(comparison_matrix.index) : baseline' = b
    /\ hemingway_comparison' = compare_to_hemingway(comparison_matrix)
    /\ UNCHANGED <<comparison_matrix, threshold, high_threshold,
                   distinctive_features, main_status, data_dir>>

\* A caller that wants features at `t` with level "high" from `h` on:
\* identify_distinctive_features takes the matrix and the threshold.
IdentifyDistinctiveFeatures ==
    /\ comparison_matrix # Unset
    /\ comparison_matrix.ok
    /\ distinctive_features = Unset
    /\ \E t \in Thresholds, h \in HighThresholds :
          /\ FGe(h, t)
          /\ threshold' = t
          /\ high_threshold' = h
          /\ distinctive_features' = Frame(identify_distinctive_features(comparison_matrix, t))
    /\ UNCHANGED <<comparison_matrix, baseline, hemingway_comparison,
                   main_status, data_dir>>

\* compare main, from the loaded frequency summary to the written report: a
\* run of the script, in a process that has called none of the functions yet.
CompareMain ==
    /\ frequency_summary # Unset
    /\ main_status = "idle"
    /\ comparison_matrix = Unset
    /\ \E matrix \in {create_comparison_matrix(frequency_summary.rows)} :
          IF ~raw_csv.exists \/ ~matrix.ok
          THEN /\ main_status' = "crashed"
               /\ data_dir' = data_dir
          ELSE
            \E comparison \in {compare_to_hemingway(matrix)},
               features \in {Frame(identify_distinctive_features(matrix, default_threshold))} :
              \E report \in {generate_summary_report(matrix, comparison, features.rows)} :
                LET d1 == [data_dir EXCEPT !["comparison_matrix.csv"] = matrix]
                    d2 == IF comparison # None
                          THEN [d1 EXCEPT !["hemingway_comparison.csv"] = comparison]
                          ELSE d1
                    d3 == IF features.rows # <<>>
                          THEN [d2 EXCEPT !["distinctive_features.csv"] = features]
                          ELSE d2
                IN  IF ~report.ok
                    THEN /\ main_status' = "crashed"
                         /\ data_dir' = d3
                    ELSE /\ main_status' = "done"
                         /\ data_dir' = [d3 EXCEPT !["comparative_report.txt"] = report]
    /\ UNCHANGED <<comparison_matrix, baseline, hemingway_comparison, threshold,
                   high_threshold, distinctive_features>>

\* The three files load_data reads exist; the comparison stage uses the
\* frequency summary alone, and the raw dataset's rows are left out.
InitCompare ==
    /\ ExtractIdle(<<>>)
    /\ AnalyzeIdle
    /\ frequency_summary \in {Frame(rows) : rows \in Summaries}
    /\ CompareIdle

NextCompare ==
    \/ CreateComparisonMatrix /\ UNCHANGED <<extract_vars, analyze_vars>>
    \/ CompareToHemingway /\ UNCHANGED <<extract_vars, analyze_vars>>
    \/ IdentifyDistinctiveFeatures /\ UNCHANGED <<extract_vars, analyze_vars>>
    \/ CompareMain /\ UNCHANGED <<extract_vars, analyze_vars>>

SpecCompare == InitCompare /\ [][NextCompare]_vars

\* ---- the comparison functions on any frequency_summary.csv

\* The largest number of authors of the summaries below.
PivotAuthors == 2

Reverse(s) == [i \in DOMAIN s |-> s[Len(s) + 1 - i]]

\* What frequency_summary.csv may hold: a summary of the analysis stage, its
\* rows in another order, the summary with a row repeated, with a second row
\* for a key already present (another mean), or without one of its rows.
PivotSummaries ==
    UNION { { s,
              Reverse(s),
              s \o <<s[1]>>,
              s \o <<[s[Len(s)] EXCEPT !.mean_frequency = <<7, 1>>]>>,
              Tail(s) } :
            s \in {x \in Summaries :
                     Cardinality({x[i].author : i \in DOMAIN x}) <= PivotAuthors} }

InitPivot ==
    /\ ExtractIdle(<<>>)
    /\ AnalyzeIdle
    /\ frequency_summary \in {Frame(rows) : rows \in PivotSummaries}
    /\ CompareIdle

SpecPivot == InitPivot /\ [][NextCompare]_vars

\* ---- from the raw dataset to the distinctive features

NextPipeline ==
    \/ CreateFrequencySummary /\ UNCHANGED <<extract_vars, compare_vars>>
    \/ CreateComparisonMatrix /\ UNCHANGED <<extract_vars, analyze_vars>>
    \/ IdentifyDistinctiveFeatures /\ UNCHANGED <<extract_vars, analyze_vars>>

SpecPipeline == InitAnalyze /\ [][NextPipeline]_vars

\* ---- runs of the whole pipeline, one after another, over a changing corpus

\* Largest number of .txt files one of these runs meets, over both folders.
MaxRunFiles == 2

\* The files the folders hold at one time or another: "The Great Gatsby.txt"
\* with one "across" in 3000 words (readable or not) or in 6000 words.
RunFiles ==
    {f \in Files :
        /\ f.name = "The Great Gatsby"
        /\ \/ f.text = AsBag([w \in Words |->
                                CASE w = "across" -> 1
                                  [] w = "the" -> 2999
                                  [] OTHER -> 0])
           \/ /\ f.openable
              /\ f.text = AsBag([w \in Words |->
                                   CASE w = "across" -> 1
                                     [] w = "the" -> 5999
                                     [] OTHER -> 0])}

\* analyze main, from load_raw_data to the written frequency summary; the
\* variable frequency_summary stands for frequency_summary.csv.  Without the
\* raw dataset load_raw_data raises and nothing is written.
AnalyzeMain ==
    IF ~raw_csv.exists
    THEN UNCHANGED analyze_vars
    ELSE
      \E enriched \in {calculate_total_adpositions(raw_csv.rows, TARGET_ADPOSITIONS)} :
        \E stats \in {calculate_author_statistics(enriched.df, TARGET_ADPOSITIONS)} :
          /\ df' = enriched.df
          /\ df_with_totals' = enriched
          /\ author_stats' = IF enriched.ok THEN stats ELSE author_stats
          /\ frequency_summary' =
                IF enriched.ok /\ stats.ok
                THEN Frame(create_frequency_summary(enriched.df, TARGET_ADPOSITIONS))
                ELSE frequency_summary

\* The three scripts have returned and the pipeline is started again: the
\* processes of the next run begin with fresh memory, and the files of
\* results/data are as the earlier runs left them.
NextRun ==
    /\ folder_idx = Len(corpus_folders) + 2
    /\ main_status # "idle"
    /\ folder_idx' = 1
    /\ results' = <<>>
    /\ all_results' = <<>>
    /\ n_files' = 0
    /\ n_skipped' = 0
    /\ last_file' = NoLast
    /\ processed' = <<>>
    /\ main_status' = "idle"
    /\ df' = <<>>
    /\ df_with_totals' = Unset
    /\ author_stats' = Unset
    /\ UNCHANGED <<raw_csv, frequency_summary, comparison_matrix, baseline,
                   hemingway_comparison, threshold, high_threshold,
                   distinctive_features, data_dir>>

\* The scripts are run in the order of the pipeline: the analysis once the
\* extraction has returned, the comparison once the analysis has returned
\* (with its tables, or at once when there is no raw dataset to load).
NextRuns ==
    \/ ProcessFileFrom(RunFiles, MaxRunFiles) /\ UNCHANGED <<analyze_vars, compare_vars>>
    \/ EndFolder /\ UNCHANGED <<analyze_vars, compare_vars>>
    \/ SaveResults /\ UNCHANGED <<analyze_vars, compare_vars>>
    \/ /\ folder_idx = Len(corpus_folders) + 2
       /\ df_with_totals = Unset
       /\ main_status = "idle"
       /\ AnalyzeMain
       /\ UNCHANGED <<extract_vars, compare_vars>>
    \/ /\ folder_idx = Len(corpus_folders) + 2
       /\ df_with_totals # Unset \/ ~raw_csv.exists
       /\ CompareMain
       /\ UNCHANGED <<extract_vars, analyze_vars>>
    \/ NextRun

SpecRuns == Init /\ [][NextRuns]_vars

\* ===================================================================
\* Properties
\* ===================================================================

\* |x - n/d| <= 1/200 and x is a whole number of hundredths: x is n/d (d > 0)
\* rounded to two decimals, whichever way a tie goes.
IsRounded2(x, n, d) ==
    /\ IsFinite(x)
    /\ 100 % x[2] = 0
    /\ 200 * Abs(x[1] * d - n * x[2]) <= x[2] * d

\* Every row the extraction run holds: in the loop, in main, on disk.
ExtractedRows == SeqToSet(results) \cup SeqToSet(all_results) \cup SeqToSet(raw_csv.rows)

\* C1: every work record's rate {a}_per_10k is counts[a] / total_words * 10000
\* rounded to two decimals when total_words > 0 and is 0 when total_words = 0,
\* and no file that can be read is lost to a division fault.
C1_RatesNormalized ==
    /\ \A row \in ExtractedRows : \A a \in Adpositions :
          /\ a \in DOMAIN row.per_10k
          /\ row.total_words > 0 =>
                IsRounded2(row.per_10k[a], row.count[a] * 10000, row.total_words)
          /\ row.total_words = 0 => row.per_10k[a] = Zero
    /\ (last_file.seen /\ last_file.file.openable) => last_file.ok

\* C1 witness: the dataset written holds a zero-word work and a work whose
\* rate is a rounded one (1 in 3000 words: 3.33).
C1_Witness ==
    /\ raw_csv.exists
    /\ \E row \in SeqToSet(raw_csv.rows) : row.total_words = 0
    /\ \E row \in SeqToSet(raw_csv.rows) :
          /\ row.total_words = 3000
          /\ row.count["across"] = 1
          /\ row.per_10k["across"] = <<333, 100>>

\* C2: every enriched row's total_adpositions_per_10k is
\* total_adpositions_count / total_words * 10000 when total_words > 0 and is 0
\* when total_words = 0 (never an undefined value).
C2_TotalRate ==
    (df_with_totals # Unset) =>
        /\ df_with_totals.ok
        /\ \A i \in DOMAIN df_with_totals.rows :
              LET e == df_with_totals.rows[i]
              IN  /\ e.row.total_words > 0 =>
                        /\ IsFinite(e.total_adpositions_per_10k)
                        /\ e.total_adpositions_per_10k[1] * e.row.total_words
                              = e.total_adpositions_count * 10000
                                  * e.total_adpositions_per_10k[2]
                  /\ e.row.total_words = 0 => e.total_adpositions_per_10k = Zero

\* The sum of column adp over the authors A of matrix m.
RECURSIVE CellSum(_, _, _)
CellSum(m, A, adp) ==
    IF A = {} THEN Zero
    ELSE LET a == CHOOSE x \in A : TRUE
         IN  FAdd(m.cell[<<a, adp>>], CellSum(m, A \ {a}, adp))

\* Leave-one-out: with O the authors other than a, others_mean = sum_O / |O| is
\* positive and cell(a) / others_mean >= t, i.e. cell(a) * |O| >= t * sum_O.
RatioAtLeast(m, a, adp, t) ==
    LET O == SeqToSet(m.index) \ {a}
    IN  /\ O # {}
        /\ FGt(CellSum(m, O, adp), Zero)
        /\ FGe(FMul(m.cell[<<a, adp>>], FromInt(Cardinality(O))),
               FMul(t, CellSum(m, O, adp)))

FeaturesAt(rows, a, adp) ==
    {i \in DOMAIN rows : rows[i].author = a /\ rows[i].adposition = adp}

\* C3: identify_distinctive_features emits a feature for a cell exactly when
\* the leave-one-out mean of the column over the other authors is positive and
\* author_rate / others_mean_rate >= threshold; a two-author column [5, 0]
\* flags neither author.
C3_LeaveOneOut ==
    (distinctive_features # Unset) =>
        LET m == comparison_matrix
            rows == distinctive_features.rows
        IN  /\ \A a \in SeqToSet(m.index) : \A adp \in SeqToSet(m.columns) :
                  Cardinality(FeaturesAt(rows, a, adp))
                      = IF RatioAtLeast(m, a, adp, threshold) THEN 1 ELSE 0
            /\ \A i \in DOMAIN rows :
                  /\ rows[i].author \in SeqToSet(m.index)
                  /\ rows[i].adposition \in SeqToSet(m.columns)
            /\ (/\ Len(m.index) = 2
                /\ m.cell[<<m.index[1], "across">>] = <<5, 1>>
                /\ m.cell[<<m.index[2], "across">>] = Zero)
                  => \A i \in DOMAIN rows : rows[i].adposition # "across"

\* C3 witness: the column [10, 2, 2] at the default threshold flags the first
\* author alone, with others_mean_rate 2 and ratio 5.0.
C3_Witness ==
    /\ distinctive_features # Unset
    /\ threshold = default_threshold
    /\ Len(comparison_matrix.index) = 3
    /\ comparison_matrix.cell[<<comparison_matrix.index[1], "across">>] = <<10, 1>>
    /\ comparison_matrix.cell[<<comparison_matrix.index[2], "across">>] = <<2, 1>>
    /\ comparison_matrix.cell[<<comparison_matrix.index[3], "across">>] = <<2, 1>>
    /\ \E i \in DOMAIN distinctive_features.rows :
          LET f == distinctive_features.rows[i]
          IN  /\ f.author = comparison_matrix.index[1]
              /\ f.adposition = "across"
              /\ f.others_mean_frequency = <<2, 1>>
              /\ f.ratio = <<5, 1>>
              /\ f.distinctive_level = "high"
              /\ \A j \in DOMAIN distinctive_features.rows :
                    distinctive_features.rows[j].adposition = "across" => j = i

\* C4 as claimed: a feature's level is "high" iff its ratio >= the
\* high_threshold the caller configured, "moderate" otherwise.
C4_HighThresholdConfigurable ==
    (distinctive_features # Unset) =>
        \A i \in DOMAIN distinctive_features.rows :
            LET f == distinctive_features.rows[i]
            IN  (f.distinctive_level = "high")
                    <=> RatioAtLeast(comparison_matrix, f.author, f.adposition,
                                     high_threshold)

\* C4 as amended: a feature's level is "high" iff its unrounded ratio
\* author_rate / others_mean_rate >= 2.0, a fixed literal, and "moderate"
\* otherwise, whatever high_threshold the caller wants.
C4_HighIsTwo ==
    (distinctive_features # Unset) =>
        \A i \in DOMAIN distinctive_features.rows :
            LET f == distinctive_features.rows[i]
            IN  /\ f.distinctive_level \in {"high", "moderate"}
                /\ (f.distinctive_level = "high")
                      <=> RatioAtLeast(comparison_matrix, f.author, f.adposition,
                                       <<2, 1>>)

\* C4 witness: the caller wants "high" from 3.0 on, and a feature of ratio
\* exactly 2.0 is "high" next to a "moderate" one.
C4_Witness ==
    /\ distinctive_features # Unset
    /\ high_threshold = <<3, 1>>
    /\ \E i, j \in DOMAIN distinctive_features.rows :
          /\ distinctive_features.rows[i].distinctive_level = "high"
          /\ distinctive_features.rows[i].ratio = <<2, 1>>
          /\ ~RatioAtLeast(comparison_matrix, distinctive_features.rows[i].author,
                           distinctive_features.rows[i].adposition, <<3, 1>>)
          /\ distinctive_features.rows[j].distinctive_level = "moderate"

EntryAuthors(rows) == {rows[i].author : i \in DOMAIN rows}

\* C5 as claimed: whichever author b of the matrix the caller designates as
\* the baseline, the comparison is made against b and yields the entries of
\* all the other authors.
C5_AnyBaseline ==
    (hemingway_comparison # Unset) =>
        /\ hemingway_comparison # None
        /\ EntryAuthors(hemingway_comparison.rows)
              = SeqToSet(comparison_matrix.index) \ {baseline}
        /\ \A i \in DOMAIN hemingway_comparison.rows :
              LET e == hemingway_comparison.rows[i]
              IN  e.hemingway_freq = comparison_matrix.cell[<<baseline, e.adposition>>]

\* C5 as amended: the baseline is the row named "hemingway", whichever author
\* the caller designates: when that row is present the comparison yields the
\* entries of all the other authors against it, and None when it is absent.
C5_BaselineIsHemingway ==
    (hemingway_comparison # Unset) =>
        IF "hemingway" \in SeqToSet(comparison_matrix.index)
        THEN /\ hemingway_comparison # None
             /\ EntryAuthors(hemingway_comparison.rows)
                   = SeqToSet(comparison_matrix.index) \ {"hemingway"}
             /\ \A i \in DOMAIN hemingway_comparison.rows :
                   LET e == hemingway_comparison.rows[i]
                   IN  e.hemingway_freq
                         = comparison_matrix.cell[<<"hemingway", e.adposition>>]
        ELSE hemingway_comparison = None

\* C5 witness: the caller designates another author, and the entries are
\* those of a comparison against "hemingway".
C5_Witness ==
    /\ hemingway_comparison # Unset
    /\ hemingway_comparison # None
    /\ baseline # "hemingway"
    /\ baseline \in EntryAuthors(hemingway_comparison.rows)
    /\ \E a \in SeqToSet(comparison_matrix.index) :
          comparison_matrix.cell[<<a, "across">>]
              # comparison_matrix.cell[<<"hemingway", "across">>]

\* The entries of a comparison frame are one per (non-baseline author,
\* adposition), with difference = author_rate - baseline_rate, and
\* ratio = +infinity when baseline_rate is 0; RatioOk(e, a, b) is what is
\* said of the ratio when baseline_rate b > 0.
EntriesOk(RatioOk(_, _, _)) ==
    LET m == comparison_matrix
        rows == hemingway_comparison.rows
    IN  /\ \A a \in SeqToSet(m.index) : \A adp \in SeqToSet(m.columns) :
              Cardinality({i \in DOMAIN rows :
                              rows[i].author = a /\ rows[i].adposition = adp})
                  = IF a = "hemingway" THEN 0 ELSE 1
        /\ \A i \in DOMAIN rows :
              LET e == rows[i]
                  a == m.cell[<<e.author, e.adposition>>]
                  b == m.cell[<<"hemingway", e.adposition>>]
              IN  /\ e.author_freq = a
                  /\ e.hemingway_freq = b
                  /\ IsFinite(e.difference)
                  /\ FAdd(e.difference, b) = a
                  /\ FGt(b, Zero) => RatioOk(e, a, b)
                  /\ b = Zero => e.ratio = Inf

ExactRatio(e, a, b) == IsFinite(e.ratio) /\ FMul(e.ratio, b) = a

RoundedRatio(e, a, b) == IsRounded2(e.ratio, a[1] * b[2], a[2] * b[1])

\* C6 as claimed: one entry per (non-baseline author, adposition), none for
\* the baseline; difference = author_rate - baseline_rate; ratio =
\* author_rate / baseline_rate when baseline_rate > 0, +infinity when it is 0.
C6_ExactRatio ==
    (hemingway_comparison # Unset /\ hemingway_comparison # None) =>
        EntriesOk(ExactRatio)

\* C6 as amended: the same, the ratio being author_rate / baseline_rate
\* rounded to two decimals when baseline_rate > 0.
C6_RoundedRatio ==
    (hemingway_comparison # Unset /\ hemingway_comparison # None) =>
        EntriesOk(RoundedRatio)

\* C6 witness: an entry with baseline 0 and author 0 has ratio +infinity, and
\* an entry 10 against 3 has ratio 3.33.
C6_Witness ==
    /\ hemingway_comparison # Unset
    /\ hemingway_comparison # None
    /\ \E i, j \in DOMAIN hemingway_comparison.rows :
          /\ hemingway_comparison.rows[i].hemingway_freq = Zero
          /\ hemingway_comparison.rows[i].author_freq = Zero
          /\ hemingway_comparison.rows[i].adposition = "across"
          /\ hemingway_comparison.rows[i].ratio = Inf
          /\ hemingway_comparison.rows[j].hemingway_freq = <<3, 1>>
          /\ hemingway_comparison.rows[j].author_freq = <<10, 1>>
          /\ hemingway_comparison.rows[j].ratio = <<333, 100>>

SummaryAuthors == {frequency_summary.rows[i].author : i \in DOMAIN frequency_summary.rows}

\* C7: without a "hemingway" row compare_to_hemingway returns None instead of
\* raising, and compare main runs to completion: the distinctive features of
\* the matrix are computed (and saved when there are any), no baseline
\* comparison is written, and the report is generated and written.
C7_BaselineAbsent ==
    /\ (hemingway_comparison # Unset
          /\ "hemingway" \notin SeqToSet(comparison_matrix.index))
            => hemingway_comparison = None
    /\ (main_status # "idle" /\ "hemingway" \notin SummaryAuthors) =>
          LET m == data_dir["comparison_matrix.csv"]
              report == data_dir["comparative_report.txt"]
              saved == data_dir["distinctive_features.csv"]
          IN  /\ main_status = "done"
              /\ m # Unset
              /\ data_dir["hemingway_comparison.csv"] = Unset
              /\ report # Unset
              /\ report.ok
              /\ ~report.hemingway_section
              /\ {<<report.traits[i].author, report.traits[i].adposition>> :
                      i \in DOMAIN report.traits}
                    = {c \in SeqToSet(m.index) \X SeqToSet(m.columns) :
                          RatioAtLeast(m, c[1], c[2], default_threshold)}
              /\ IF report.traits = <<>> THEN saved = Unset
                 ELSE saved = Frame(report.traits)

\* C7 witness: compare main has finished on a summary without "hemingway",
\* and the report holds distinctive features.
C7_Witness ==
    /\ main_status = "done"
    /\ "hemingway" \notin SummaryAuthors
    /\ Cardinality(SummaryAuthors) >= 2
    /\ data_dir["comparative_report.txt"] # Unset
    /\ data_dir["comparative_report.txt"].traits # <<>>
    /\ data_dir["hemingway_comparison.csv"] = Unset

\* The rows of df an author has, as indices.
WorksOf(d, author) == {i \in DOMAIN d : d[i].author = author}

\* Exact sum of f[i] over the indices I.
RECURSIVE SumOver(_, _)
SumOver(f, I) ==
    IF I = {} THEN Zero
    ELSE LET i == CHOOSE x \in I : TRUE IN FAdd(f[i], SumOver(f, I \ {i}))

\* The unrounded rate of one work: count / total_words * 10000, 0 for no words.
ExactRate(row, adp) ==
    IF row.total_words = 0 THEN Zero ELSE Frac(row.count[adp] * 10000, row.total_words)

\* The unrounded sum of an author's unrounded rates.
ExactRateSum(d, author, adp) ==
    SumOver([i \in DOMAIN d |-> ExactRate(d[i], adp)], WorksOf(d, author))

DfAuthors(d) == {d[i].author : i \in DOMAIN d}

\* a's mean rate is at least t times the mean of the other authors' mean
\* rates, which is positive; all in exact arithmetic over the raw counts.
\* With n(x) the number of works of x and s(x) the sum of x's rates:
\*   (s(a) / n(a)) / (sum_O (s(o) / n(o)) / |O|) >= t.
ExactRatioAtLeast(d, a, adp, t) ==
    LET O == DfAuthors(d) \ {a}
        mean == [x \in DfAuthors(d) |->
                    NpDiv(ExactRateSum(d, x, adp), FromInt(Cardinality(WorksOf(d, x))))]
        others == SumOver(mean, O)
    IN  /\ O # {}
        /\ FGt(others, Zero)
        /\ FGe(FMul(mean[a], FromInt(Cardinality(O))), FMul(t, others))

\* C8: the features emitted and their levels are those exact (unrounded)
\* arithmetic over the raw counts gives: rounding to two decimals decides
\* neither the threshold check nor the high/moderate classification.
C8_UnroundedDecisions ==
    (distinctive_features # Unset) =>
        {<<distinctive_features.rows[i].author,
           distinctive_features.rows[i].adposition,
           distinctive_features.rows[i].distinctive_level>> :
              i \in DOMAIN distinctive_features.rows}
          = {<<c[1], c[2],
               IF ExactRatioAtLeast(df, c[1], c[2], <<2, 1>>) THEN "high" ELSE "moderate">> :
                c \in {x \in DfAuthors(df) \X Adpositions :
                          ExactRatioAtLeast(df, x[1], x[2], threshold)}}

\* What C9 says of one row s of the author statistics, AvgOk(avg, sum, n)
\* being what is said of an average given the sum of the n per-work rates.
StatsRowOk(s, AvgOk(_, _, _)) ==
    /\ s.num_works = Cardinality(WorksOf(df, s.author))
    /\ s.num_works > 0
    /\ s.total_words = ISum([i \in DOMAIN df |->
                               IF df[i].author = s.author THEN df[i].total_words ELSE 0])
    /\ DOMAIN s.avg_per_10k = Adpositions
    /\ \A adp \in Adpositions :
          AvgOk(s.avg_per_10k[adp],
                SumOver([i \in DOMAIN df |-> df[i].per_10k[adp]], WorksOf(df, s.author)),
                s.num_works)

StatsOk(AvgOk(_, _, _)) ==
    /\ author_stats.ok
    /\ {author_stats.rows[i].author : i \in DOMAIN author_stats.rows} = DfAuthors(df)
    /\ \A i \in DOMAIN author_stats.rows : StatsRowOk(author_stats.rows[i], AvgOk)

ExactAvg(avg, sum, n) == IsFinite(avg) /\ FMul(avg, FromInt(n)) = sum

RoundedAvg(avg, sum, n) == IsRounded2(avg, sum[1], sum[2] * n)

\* C9 as claimed: an author's average rate is the unweighted arithmetic mean
\* of the author's per-work rates; num_works is the number of the author's
\* works and total_words the sum of their total_words.
C9_UnweightedMean ==
    (author_stats # Unset) => StatsOk(ExactAvg)

\* C9 as amended: the average rate is the unweighted arithmetic mean of the
\* per-work rates rounded to two decimals.
C9_RoundedUnweightedMean ==
    (author_stats # Unset) => StatsOk(RoundedAvg)

\* C9 witness: an author with a short and a long work, whose average rate is
\* not the pooled rate sum(count) / sum(total_words) * 10000.
C9_Witness ==
    /\ author_stats # Unset
    /\ \E i \in DOMAIN author_stats.rows :
          LET s == author_stats.rows[i]
          IN  /\ s.num_works = 2
              /\ s.total_words = 9000
              /\ s.total_count["across"] = 1
              /\ ~IsRounded2(s.avg_per_10k["across"], 10000, 9000)

StatPairs ==
    {<<author_stats.rows[i].author, adp>> :
        <<i, adp>> \in {x \in (DOMAIN author_stats.rows) \X Adpositions :
                          x[2] \in DOMAIN author_stats.rows[x[1]].avg_per_10k}}

SummaryPairs ==
    {<<frequency_summary.rows[i].author, frequency_summary.rows[i].adposition>> :
        i \in DOMAIN frequency_summary.rows}

\* C10: the author statistics and the frequency summary of one raw dataset
\* cover the same (author, adposition) pairs, and for each pair
\* {adp}_avg_per_10k is mean_frequency and {adp}_std_per_10k is std_frequency
\* (both undefined, NaN, for an author with one work).
C10_SameStatistic ==
    (author_stats # Unset /\ frequency_summary # Unset) =>
        /\ author_stats.ok
        /\ StatPairs = SummaryPairs
        /\ \A i \in DOMAIN author_stats.rows : \A j \in DOMAIN frequency_summary.rows :
              LET s == author_stats.rows[i]
                  e == frequency_summary.rows[j]
              IN  s.author = e.author =>
                      /\ s.avg_per_10k[e.adposition] = e.mean_frequency
                      /\ s.std_per_10k[e.adposition] = e.std_frequency
        /\ \A j, k \in DOMAIN frequency_summary.rows :
              (/\ frequency_summary.rows[j].author = frequency_summary.rows[k].author
               /\ frequency_summary.rows[j].adposition
                     = frequency_summary.rows[k].adposition) => j = k

\* C10 witness: both tables are computed for an author with two works whose
\* mean rate needed rounding (3.33 and 0: 1.665) and whose deviation is defined.
C10_Witness ==
    /\ author_stats # Unset
    /\ frequency_summary # Unset
    /\ \E j \in DOMAIN frequency_summary.rows :
          LET e == frequency_summary.rows[j]
          IN  /\ e.adposition = "across"
              /\ e.min_frequency = Zero
              /\ e.max_frequency = <<333, 100>>
              /\ IsFinite(e.std_frequency)
              /\ FGt(e.std_frequency, Zero)
              /\ IsFinite(e.mean_frequency)

\* C11: when the raw dataset lacks the {adp}_count or {adp}_per_10k column of
\* a target adposition, every stage that needs the column fails and produces
\* no table: calculate_total_adpositions needs the counts,
\* calculate_author_statistics both columns, create_frequency_summary the
\* rates; no stage returns a table from which the adposition is left out.
C11_SchemaMismatch ==
    LET missing_count == ~(Adpositions \subseteq CountCols(df))
        missing_freq == ~(Adpositions \subseteq FreqCols(df))
    IN  /\ (df_with_totals # Unset /\ missing_count) => ~df_with_totals.ok
        /\ (author_stats # Unset /\ (missing_count \/ missing_freq)) => ~author_stats.ok
        /\ (frequency_summary # Unset /\ missing_freq) => frequency_summary.kind # "frame"

\* More than one row of the summary has the same (author, adposition) key.
HasDuplicateKey(rows) ==
    \E i, j \in DOMAIN rows :
        /\ i # j
        /\ rows[i].author = rows[j].author
        /\ rows[i].adposition = rows[j].adposition

\* C12: create_comparison_matrix fails, and yields no matrix, whenever more
\* than one frequency-summary row has the same (author, adposition) key: the
\* duplicate is resolved neither by last-write-wins nor by averaging, and
\* compare main stops without writing a matrix.
C12_AmbiguousPivot ==
    /\ (comparison_matrix # Unset /\ HasDuplicateKey(frequency_summary.rows))
          => /\ ~comparison_matrix.ok
             /\ DOMAIN comparison_matrix = {"ok", "error"}
    /\ (main_status # "idle" /\ HasDuplicateKey(frequency_summary.rows))
          => /\ main_status = "crashed"
             /\ data_dir = NoData

\* C12 witness: the summary holds two rows of one key with two different
\* means, and the pivot has failed.
C12_Witness ==
    /\ comparison_matrix # Unset
    /\ ~comparison_matrix.ok
    /\ \E i, j \in DOMAIN frequency_summary.rows :
          /\ i # j
          /\ frequency_summary.rows[i].author = frequency_summary.rows[j].author
          /\ frequency_summary.rows[i].adposition = frequency_summary.rows[j].adposition
          /\ frequency_summary.rows[i].mean_frequency
                # frequency_summary.rows[j].mean_frequency

\* C13: for a summary without duplicate keys the pivot succeeds, the rows of
\* the matrix are exactly the authors of the summary and its columns exactly
\* the adpositions of the summary (each once), the cell of every summary row
\* is that row's mean_frequency, and a cell without a summary row is NaN.
C13_LosslessPivot ==
    (comparison_matrix # Unset /\ ~HasDuplicateKey(frequency_summary.rows)) =>
        LET rows == frequency_summary.rows
            m == comparison_matrix
        IN  /\ m.ok
            /\ SeqToSet(m.index) = {rows[i].author : i \in DOMAIN rows}
            /\ SeqToSet(m.columns) = {rows[i].adposition : i \in DOMAIN rows}
            /\ Len(m.index) = Cardinality(SeqToSet(m.index))
            /\ Len(m.columns) = Cardinality(SeqToSet(m.columns))
            /\ DOMAIN m.cell = SeqToSet(m.index) \X SeqToSet(m.columns)
            /\ \A i \in DOMAIN rows :
                  m.cell[<<rows[i].author, rows[i].adposition>>] = rows[i].mean_frequency
            /\ \A c \in DOMAIN m.cell :
                  (\A i \in DOMAIN rows : <<rows[i].author, rows[i].adposition>> # c)
                      => IsNaN(m.cell[c])

\* C13 witness: a summary of two authors, its rows not in the order of the
\* matrix, with two different means in one column, has been pivoted.
C13_Witness ==
    /\ comparison_matrix # Unset
    /\ comparison_matrix.ok
    /\ ~HasDuplicateKey(frequency_summary.rows)
    /\ Len(comparison_matrix.index) = 2
    /\ frequency_summary.rows[1].author = comparison_matrix.index[2]
    /\ comparison_matrix.cell[<<comparison_matrix.index[1], "across">>] = <<10, 1>>
    /\ comparison_matrix.cell[<<comparison_matrix.index[2], "across">>] = <<2, 1>>
    /\ Len(frequency_summary.rows) = 12

\* The loop iterations that appended a row.
Succeeded(p) == LET Test(x) == x.ok IN SelectSeq(p, Test)

\* C14: a document whose reading or processing raises contributes no row and
\* does not end the run: the rows gathered so far are, in order, exactly one
\* row for each of the other documents met, before and after the failing
\* ones, and they are the raw dataset written when the run ends.
C14_FailingDocumentSkipped ==
    LET rows == all_results \o results
        done == Succeeded(processed)
    IN  /\ Len(processed) = n_files
        /\ Len(processed) - Len(done) = n_skipped
        /\ Len(rows) = Len(done)
        /\ \A i \in DOMAIN rows :
              /\ rows[i].work = done[i].work
              /\ rows[i].author = done[i].author
        /\ (last_file.seen /\ ~last_file.file.openable) => ~last_file.ok
        /\ (folder_idx = Len(corpus_folders) + 2 /\ done # <<>>)
              => raw_csv = [exists |-> TRUE, rows |-> rows]

\* C14 witness: a folder's file that cannot be read lies between two files
\* that are processed, and the run has ended with the two rows written.
C14_Witness ==
    /\ folder_idx = Len(corpus_folders) + 2
    /\ Len(processed) = 3
    /\ processed[1].ok /\ ~processed[2].ok /\ processed[3].ok
    /\ \A i \in 1 .. 3 : processed[i].author = "hemingway"
    /\ Len(raw_csv.rows) = 2
    /\ raw_csv.rows[1].work = processed[1].work
    /\ raw_csv.rows[2].work = processed[3].work

\* C15: for every row of the dataset passed to calculate_total_adpositions,
\* total_adpositions_count is the sum of the row's {adp}_count over the six
\* target adpositions, the enriched row carries the input row unchanged, and
\* the dataset passed in is still the dataset as loaded: no column is added
\* to it.
C15_TotalCount ==
    (df_with_totals # Unset) =>
        /\ df_with_totals.ok
        /\ DOMAIN df_with_totals.rows = DOMAIN raw_csv.rows
        /\ \A i \in DOMAIN df_with_totals.rows :
              LET e == df_with_totals.rows[i]
                  r == raw_csv.rows[i]
              IN  /\ e.row = r
                  /\ e.total_adpositions_count
                        = r.count["across"] + r.count["through"] + r.count["along"]
                            + r.count["past"] + r.count["around"] + r.count["beyond"]
        /\ df = raw_csv.rows

\* C15 witness: a dataset of two works has been enriched, one of its works
\* with three adpositions in all (two "across", one "through").
C15_Witness ==
    /\ df_with_totals # Unset
    /\ Len(df) = 2
    /\ \E i \in DOMAIN df_with_totals.rows :
          /\ df_with_totals.rows[i].total_adpositions_count = 3
          /\ df[i].count["across"] = 2
          /\ df[i].count["through"] = 1

\* C16: whatever runs came before, once a stage has run the artifacts it
\* writes are those of that run: when the extraction has returned, a raw
\* dataset on disk holds the rows of this run, and when compare main is done,
\* a baseline comparison and a distinctive-features table on disk are those of
\* the matrix it has just written; no file of an earlier run stays in place
\* when this run has no rows, no baseline or no feature.
C16_NoStaleArtifact ==
    /\ (folder_idx = Len(corpus_folders) + 2 /\ raw_csv.exists)
          => raw_csv.rows = all_results
    /\ (main_status = "done") =>
          LET m == data_dir["comparison_matrix.csv"]
              hem == data_dir["hemingway_comparison.csv"]
              feat == data_dir["distinctive_features.csv"]
          IN  /\ hem # Unset => hem = compare_to_hemingway(m)
              /\ feat # Unset
                    => feat = Frame(identify_distinctive_features(m, default_threshold))

====
